---- MODULE Spec2Model ----
(***************************************************************************)
(* School van complaint tracker (src/app.py): the SQLite tables users and  *)
(* complaints, the Streamlit session, and the handlers that write them.    *)
(*                                                                         *)
(* Text that the code strips is a sequence of chunks, a chunk being either *)
(* the blank " " or a run of non-blank characters; a nullable column holds *)
(* NULL or Val(x); a timestamp is the reading of the clock.                *)
(***************************************************************************)
EXTENDS Integers, Sequences, FiniteSets, TLC

VARIABLES
    users,         \* table users: set of rows [username, password, role]
    complaints,    \* table complaints: sequence of rows, row i has id i
    session,       \* st.session_state["user"], or NoUser
    clock,         \* the last reading of datetime.utcnow()
    everResolved,  \* history: ids a status update to Resolved was applied to
    secretOf,      \* history: the raw secret each stored username was given
    registered,    \* history: the Sign Up forms that created an account
    last           \* the last call or handler and what it reported

vars == <<users, complaints, session, clock, everResolved, secretOf, registered, last>>

----------------------------------------------------------------------------
(* Bounds of the model *)

MaxClock == 4
MaxComplaints == 2
MaxPageClock == 3

----------------------------------------------------------------------------
(* Values *)

NULL == [isNull |-> TRUE]
Val(x) == [isNull |-> FALSE, val |-> x]

NoUser == [present |-> FALSE]

UPLOAD_DIR == "uploads"

\* str.strip(): drop the leading and the trailing blanks
RECURSIVE lstrip(_)
lstrip(s) == IF s # <<>> /\ Head(s) = " " THEN lstrip(Tail(s)) ELSE s

RECURSIVE rstrip(_)
rstrip(s) ==
    IF s # <<>> /\ s[Len(s)] = " " THEN rstrip(SubSeq(s, 1, Len(s) - 1)) ELSE s

strip(s) == rstrip(lstrip(s))

\* hashlib.sha256(password.encode('utf-8')).hexdigest(): one-way, injective,
\* and never the text it was computed from
sha256_hexdigest(password) == "sha256(" \o password \o ")"

----------------------------------------------------------------------------
(* init_db: the seeded identities, inserted with INSERT OR IGNORE *)

SeedUsers ==
    { [username |-> <<"principal">>, password |-> "principal123", role |-> "principal"],
      [username |-> <<"org">>, password |-> "org123", role |-> "org"],
      [username |-> <<"chairman">>, password |-> "chairman123", role |-> "chairman"] }

Usernames(us) == { u.username : u \in us }

\* username TEXT UNIQUE: a row whose username is stored already is ignored
init_db(us) == us \cup { s \in SeedUsers : s.username \notin Usernames(us) }

\* variant: the users table without its UNIQUE constraint
unique_violated_never(us, username) == FALSE

\* username TEXT UNIQUE: the INSERT of a username that is stored already raises
unique_violated(us, username) == username \in Usernames(us)

\* variant: the password is compared as typed, without hashing it
fetch_user_unhashed(us, username, password) ==
    { u \in us : u.username = strip(username) /\ u.password = password }

\* SELECT * FROM users WHERE username = ? AND password = ?
fetch_user(us, username, password) ==
    { u \in us : u.username = strip(username)
                 /\ u.password = sha256_hexdigest(password) }

----------------------------------------------------------------------------
(* The complaint repository *)

\* variant: the new row is stamped as resolved at creation
insert_complaint_resolved(cs, bus_number, complaint_dt, problem_type, details, photo_paths, now) ==
    Append(cs,
        [ id |-> Len(cs) + 1,
          bus_number |-> bus_number,
          complaint_datetime |-> complaint_dt,
          problem_type |-> problem_type,
          details |-> details,
          photo_paths |-> photo_paths,
          status |-> "Open",
          org_response |-> NULL,
          created_at |-> now,
          updated_at |-> now,
          resolved_at |-> Val(now),
          chairman_reaction |-> NULL ])

insert_complaint(cs, bus_number, complaint_dt, problem_type, details, photo_paths, now) ==
    Append(cs,
        [ id |-> Len(cs) + 1,
          bus_number |-> bus_number,
          complaint_datetime |-> complaint_dt,
          problem_type |-> problem_type,
          details |-> details,
          photo_paths |-> photo_paths,
          status |-> "Open",
          org_response |-> NULL,
          created_at |-> now,
          updated_at |-> now,
          resolved_at |-> NULL,
          chairman_reaction |-> NULL ])

\* variant: resolved_at = ? without the CASE, so every status stamps it
update_complaint_status_stamping(cs, complaint_id, status, response, now) ==
    [ i \in DOMAIN cs |->
        IF cs[i].id = complaint_id
        THEN [ cs[i] EXCEPT
                 !.status = status,
                 !.org_response = response,
                 !.updated_at = now,
                 !.resolved_at = Val(now) ]
        ELSE cs[i] ]

\* variant: resolved_at = ? without the CASE, so a status other than Resolved
\* clears it
update_complaint_status_clearing(cs, complaint_id, status, response, now) ==
    [ i \in DOMAIN cs |->
        IF cs[i].id = complaint_id
        THEN [ cs[i] EXCEPT
                 !.status = status,
                 !.org_response = response,
                 !.updated_at = now,
                 !.resolved_at = IF status = "Resolved" THEN Val(now) ELSE NULL ]
        ELSE cs[i] ]

\* variant: org_response = COALESCE(?, org_response), so no text keeps the old one
update_complaint_status_keeping(cs, complaint_id, status, response, now) ==
    LET resolved_at == IF status = "Resolved" THEN Val(now) ELSE NULL
    IN  [ i \in DOMAIN cs |->
            IF cs[i].id = complaint_id
            THEN [ cs[i] EXCEPT
                     !.status = status,
                     !.org_response = IF response = NULL THEN @ ELSE response,
                     !.updated_at = now,
                     !.resolved_at = IF resolved_at = NULL THEN @ ELSE resolved_at ]
            ELSE cs[i] ]

update_complaint_status(cs, complaint_id, status, response, now) ==
    LET resolved_at == IF status = "Resolved" THEN Val(now) ELSE NULL
    IN  [ i \in DOMAIN cs |->
            IF cs[i].id = complaint_id
            THEN [ cs[i] EXCEPT
                     !.status = status,
                     !.org_response = response,
                     !.updated_at = now,
                     !.resolved_at = IF resolved_at = NULL THEN @ ELSE resolved_at ]
            ELSE cs[i] ]

\* variant: the UPDATE sets chairman_reaction alone
set_chairman_reaction_untimed(cs, complaint_id, reaction, now) ==
    [ i \in DOMAIN cs |->
        IF cs[i].id = complaint_id
        THEN [ cs[i] EXCEPT !.chairman_reaction = Val(reaction) ]
        ELSE cs[i] ]

\* variant: the UPDATE without its WHERE clause
set_chairman_reaction_all(cs, complaint_id, reaction, now) ==
    [ i \in DOMAIN cs |->
        [ cs[i] EXCEPT !.chairman_reaction = Val(reaction), !.updated_at = now ] ]

set_chairman_reaction(cs, complaint_id, reaction, now) ==
    [ i \in DOMAIN cs |->
        IF cs[i].id = complaint_id
        THEN [ cs[i] EXCEPT !.chairman_reaction = Val(reaction), !.updated_at = now ]
        ELSE cs[i] ]

Ids(cs) == { cs[i].id : i \in DOMAIN cs }

\* the ASCII letters, for which alone LIKE ignores case
UPPER == << "A", "B", "C", "D", "E", "F", "G", "H", "I", "J", "K", "L", "M",
            "N", "O", "P", "Q", "R", "S", "T", "U", "V", "W", "X", "Y", "Z" >>
LOWER == << "a", "b", "c", "d", "e", "f", "g", "h", "i", "j", "k", "l", "m",
            "n", "o", "p", "q", "r", "s", "t", "u", "v", "w", "x", "y", "z" >>

lower(c) ==
    IF \E i \in DOMAIN UPPER : UPPER[i] = c
    THEN LOWER[CHOOSE i \in DOMAIN UPPER : UPPER[i] = c]
    ELSE c

\* text LIKE pattern in SQLite: % stands for any run of characters, _ for any
\* one character, and ASCII letters match in either case
RECURSIVE like(_, _)
like(pattern, text) ==
    IF pattern = <<>> THEN text = <<>>
    ELSE IF Head(pattern) = "%"
         THEN \/ like(Tail(pattern), text)
              \/ text # <<>> /\ like(pattern, Tail(text))
         ELSE /\ text # <<>>
              /\ \/ Head(pattern) = "_"
                 \/ lower(Head(pattern)) = lower(Head(text))
              /\ like(Tail(pattern), Tail(text))

\* date(complaint_datetime): the date part of the stored <<date, time>>
date(dt) == dt[1]

\* the order of the isoformat texts of two <<date, time>>
isoformat_lt(a, b) == a[1] < b[1] \/ (a[1] = b[1] /\ a[2] < b[2])

\* the WHERE clause that fetch_complaints builds: a condition is added only
\* for an argument that is not None (and not empty, and not "All")
where(r, bus, problem, status, start_date, end_date) ==
    /\ ~bus.isNull => r.bus_number = bus.val
    /\ (~problem.isNull /\ problem.val # <<>>)
          => like(<<"%">> \o problem.val \o <<"%">>, r.problem_type)
    /\ (~status.isNull /\ status.val # "All") => r.status = status.val
    /\ ~start_date.isNull => date(r.complaint_datetime) >= start_date.val
    /\ ~end_date.isNull => date(r.complaint_datetime) <= end_date.val

\* SELECT * FROM complaints WHERE ... ORDER BY complaint_datetime DESC: the
\* results the query may return. The rows are those of the WHERE clause; the
\* ORDER BY has one key, so rows with equal complaint_datetime may come in
\* any order.
fetch_complaints(cs, bus, problem, status, start_date, end_date) ==
    LET hits == { cs[i] : i \in { k \in DOMAIN cs :
                     where(cs[k], bus, problem, status, start_date, end_date) } }
    IN  { rows \in [1 .. Cardinality(hits) -> hits] :
            /\ \A r \in hits : \E j \in DOMAIN rows : rows[j] = r
            /\ \A j, k \in DOMAIN rows :
                 j < k => ~isoformat_lt(rows[j].complaint_datetime,
                                        rows[k].complaint_datetime) }

----------------------------------------------------------------------------
(* Inputs *)

\* st.selectbox("Bus Number", list(range(1, 71))): its first and last option
BUS_COUNT == 70
BusOptions == {1, BUS_COUNT}

\* st.selectbox("Status", ["Open", "In Progress", "Resolved"], ...)
StatusOptions == {"Open", "In Progress", "Resolved"}

\* the three reaction buttons of chairman_page
Reactions == {"Great", "Followup", "Perfect"}

\* what the principal's form is submitted with
FormInputs ==
    { [bus_number |-> 1, complaint_dt |-> <<1, 8>>, problem_type |-> <<"D", "e", "l", "a", "y">>,
       details |-> <<"late">>, photos |-> <<>>],
      [bus_number |-> BUS_COUNT, complaint_dt |-> <<2, 9>>, problem_type |-> <<"F", "i", "g", "h", "t">>,
       details |-> <<" ", "hit", " ">>, photos |-> <<"a.png">>],
      [bus_number |-> 1, complaint_dt |-> <<2, 9>>, problem_type |-> <<"O", "t", "h", "e", "r">>,
       details |-> <<" ">>, photos |-> <<>>],
      [bus_number |-> BUS_COUNT, complaint_dt |-> <<1, 8>>, problem_type |-> <<"D", "e", "l", "a", "y">>,
       details |-> <<>>, photos |-> <<"a.png">>] }

\* what the response text area of org_page holds when Save Update is pressed
ResponseInputs == { <<>>, <<" ">>, <<"fixed">>, <<" ", "towed">> }

\* what the Sign In form is submitted with
SignInInputs ==
    { [username |-> <<"ann">>, password |-> "pw1"],
      [username |-> <<"ann", " ">>, password |-> "pw2"],
      [username |-> <<"bob">>, password |-> "pw2"],
      [username |-> <<"bob">>, password |-> "pw1"],
      [username |-> <<"cy">>, password |-> "pw1"],
      [username |-> <<"org">>, password |-> "org123"],
      [username |-> <<>>, password |-> "pw1"],
      [username |-> <<"cy">>, password |-> ""] }

\* what the Sign Up form is submitted with
SignUpInputs ==
    { [username |-> <<"ann">>, password |-> "pw1", role |-> "principal"],
      [username |-> <<"bob">>, password |-> "pw2", role |-> "org"],
      [username |-> <<"cy">>, password |-> "pw1", role |-> "chairman"],
      [username |-> <<" ", "ann">>, password |-> "pw2", role |-> "chairman"],
      [username |-> <<"org">>, password |-> "pw1", role |-> "org"],
      [username |-> <<>>, password |-> "pw1", role |-> "principal"],
      [username |-> <<"bob">>, password |-> "", role |-> "org"] }

\* the arguments the repository functions are called with directly
InsertArgs ==
    { [bus_number |-> 1, complaint_dt |-> <<1, 8>>, problem_type |-> <<"D", "e", "l", "a", "y">>,
       details |-> <<"late">>, photo_paths |-> <<>>],
      [bus_number |-> 0, complaint_dt |-> <<2, 9>>, problem_type |-> <<"O", "t", "h", "e", "r">>,
       details |-> <<" ">>, photo_paths |-> <<>>] }

ResponseArgs == { NULL, Val(<<"fixed">>), Val(<<"towed">>) }

\* the stored ids and one more, which no complaint ever has
IdArgs == 1 .. (MaxComplaints + 1)

----------------------------------------------------------------------------
(* Initial state: the tables as init_db leaves them on the first run *)

\* what `last` records: the handler that ran, the repository function it
\* called (or "none"), the id and arguments of that call, the row with that id
\* before the call (NULL if there was none), and what the caller was told
Call(handler, call, id, arg, old, result) ==
    [handler |-> handler, call |-> call, id |-> id, arg |-> arg, old |-> old,
     result |-> result]

\* the row WHERE id = ?, if any
RowOf(cs, id) == IF id \in Ids(cs) THEN Val(cs[id]) ELSE NULL

Init ==
    /\ users = init_db({})
    /\ complaints = <<>>
    /\ session = NoUser
    /\ clock = 0
    /\ everResolved = {}
    /\ secretOf = [ n \in Usernames(SeedUsers) |->
                      (CHOOSE s \in SeedUsers : s.username = n).password ]
    /\ registered = {}
    /\ last = Call("main", "none", 0, NULL, NULL, "returned")

\* datetime.utcnow() of the next call
Now == clock + 1

----------------------------------------------------------------------------
(* The repository functions called directly *)

ApiInsertComplaint ==
    /\ Now <= MaxClock
    /\ Len(complaints) < MaxComplaints
    /\ \E a \in InsertArgs :
         /\ complaints' = insert_complaint(complaints, a.bus_number, a.complaint_dt,
                                           a.problem_type, a.details, a.photo_paths, Now)
         /\ last' = Call("api", "insert_complaint", Len(complaints) + 1, a, NULL,
                         "returned")
    /\ clock' = Now
    /\ UNCHANGED <<users, session, everResolved, secretOf, registered>>

ApiUpdateComplaintStatus ==
    /\ Now <= MaxClock
    /\ \E id \in IdArgs, status \in StatusOptions, response \in ResponseArgs :
         /\ complaints' = update_complaint_status(complaints, id, status, response, Now)
         /\ everResolved' = IF status = "Resolved" /\ id \in Ids(complaints)
                            THEN everResolved \cup {id} ELSE everResolved
         /\ last' = Call("api", "update_complaint_status", id,
                         [status |-> status, response |-> response],
                         RowOf(complaints, id), "returned")
    /\ clock' = Now
    /\ UNCHANGED <<users, session, secretOf, registered>>

ApiSetChairmanReaction ==
    /\ Now <= MaxClock
    /\ \E id \in IdArgs, reaction \in Reactions :
         /\ complaints' = set_chairman_reaction(complaints, id, reaction, Now)
         /\ last' = Call("api", "set_chairman_reaction", id, [reaction |-> reaction],
                         RowOf(complaints, id), "returned")
    /\ clock' = Now
    /\ UNCHANGED <<users, session, everResolved, secretOf, registered>>

NextApi ==
    \/ ApiInsertComplaint
    \/ ApiUpdateComplaintStatus
    \/ ApiSetChairmanReaction

SpecApi == Init /\ [][NextApi]_vars

----------------------------------------------------------------------------
(* fetch_complaints called on the stores the repository functions build *)

\* date and time of the incident, as the form combines them
DateTimes == { <<1, 8>>, <<1, 9>>, <<2, 9>> }

\* three of the options of the Problem Type selectbox
ProblemTypes == { <<"D", "e", "l", "a", "y">>, <<"F", "i", "g", "h", "t">>,
                  <<"O", "t", "h", "e", "r">> }

\* what a stored complaint was created with and the status it was given
StoredArgs ==
    [ bus_number : BusOptions, complaint_dt : DateTimes,
      problem_type : ProblemTypes, status : StatusOptions ]

\* cs after insert_complaint at time now and, unless the complaint stays Open,
\* update_complaint_status of the new row at the next reading of the clock
store_with(cs, a, now) ==
    LET c == insert_complaint(cs, a.bus_number, a.complaint_dt, a.problem_type,
                              <<"late">>, <<>>, now)
    IN  IF a.status = "Open" THEN c
        ELSE update_complaint_status(c, Len(c), a.status, NULL, now + 1)

\* the stores of up to two complaints
ListStores ==
    {<<>>}
    \cup { store_with(<<>>, a, 1) : a \in StoredArgs }
    \cup { store_with(store_with(<<>>, a, 1), b, 3) : a, b \in StoredArgs }

\* the arguments fetch_complaints is called with
FilterArgs ==
    LET F(bus, problem, status, start_date, end_date) ==
            [bus |-> bus, problem |-> problem, status |-> status,
             start_date |-> start_date, end_date |-> end_date]
    IN  { F(NULL, NULL, NULL, NULL, NULL),
          F(NULL, NULL, Val("Open"), NULL, NULL),
          F(NULL, NULL, Val("All"), NULL, NULL),
          F(Val(1), NULL, Val("In Progress"), NULL, NULL),
          F(NULL, Val(<<>>), NULL, NULL, NULL),
          F(NULL, Val(<<"e", "l", "a">>), NULL, NULL, NULL),
          F(NULL, Val(<<"d", "e", "l">>), NULL, NULL, NULL),
          F(NULL, Val(<<"F", "_", "g">>), NULL, NULL, NULL),
          F(NULL, NULL, NULL, Val(2), NULL),
          F(NULL, NULL, NULL, Val(1), Val(1)),
          F(Val(BUS_COUNT), Val(<<"h", "t">>), Val("Resolved"), Val(2), Val(2)) }

InitList ==
    /\ users = init_db({})
    /\ complaints \in ListStores
    /\ session = NoUser
    /\ clock = 4
    /\ everResolved = { i \in DOMAIN complaints : ~complaints[i].resolved_at.isNull }
    /\ secretOf = [ n \in Usernames(SeedUsers) |->
                      (CHOOSE s \in SeedUsers : s.username = n).password ]
    /\ registered = {}
    /\ last = Call("main", "none", 0, NULL, NULL, "returned")

ApiFetchComplaints ==
    /\ \E f \in FilterArgs :
         \E rows \in fetch_complaints(complaints, f.bus, f.problem, f.status,
                                      f.start_date, f.end_date) :
            last' = Call("api", "fetch_complaints", 0, f, NULL, rows)
    /\ UNCHANGED <<users, complaints, session, clock, everResolved, secretOf, registered>>

NextList == ApiFetchComplaints

SpecList == InitList /\ [][NextList]_vars

----------------------------------------------------------------------------
(* compute_resolution_metrics called on the rows the repository functions build *)

\* the clock counts seconds; total_seconds() / 3600.0
SECONDS_PER_HOUR == 3600

\* variant: only the rows whose status is Resolved are timed
RECURSIVE durations_of_resolved(_)
durations_of_resolved(rows) ==
    IF rows = <<>> THEN <<>>
    ELSE LET r == Head(rows)
         IN  (IF r.status = "Resolved"
              THEN << r.resolved_at.val - r.created_at >>
              ELSE <<>>) \o durations_of_resolved(Tail(rows))

\* (resolved_dt - created_dt).total_seconds() of every row with a resolved_at
RECURSIVE durations(_)
durations(rows) ==
    IF rows = <<>> THEN <<>>
    ELSE LET r == Head(rows)
         IN  (IF ~r.resolved_at.isNull
              THEN << r.resolved_at.val - r.created_at >>
              ELSE <<>>) \o durations(Tail(rows))

RECURSIVE sum(_)
sum(xs) == IF xs = <<>> THEN 0 ELSE Head(xs) + sum(Tail(xs))

\* the number of rows whose status is Open
RECURSIVE open_count(_)
open_count(rows) ==
    IF rows = <<>> THEN 0
    ELSE (IF Head(rows).status = "Open" THEN 1 ELSE 0) + open_count(Tail(rows))

\* total, open_count and avg_hours as compute_resolution_metrics returns them
\* (resolved_today, which reads today's date, is left out). The durations are
\* seconds over SECONDS_PER_HOUR, so their mean is the fraction num / den.
compute_resolution_metrics(rows) ==
    LET d == durations(rows)
    IN  [ total |-> Len(rows),
          open_count |-> open_count(rows),
          avg_hours |-> IF d # <<>>
                        THEN Val([num |-> sum(d), den |-> SECONDS_PER_HOUR * Len(d)])
                        ELSE NULL ]

MaxRows == 3

\* what became of a complaint after it was created, and how long it took
Fates ==
    [ fate : {"open", "progress", "resolved", "reopened"}, wait : {1, 2} ]

\* cs after insert_complaint of its next row, at the time of that row's
\* number, and the updates of that row's fate at later readings of the clock
with_fate(cs, h) ==
    LET id == Len(cs) + 1
        c == insert_complaint(cs, 1, <<1, 8>>, <<"D", "e", "l", "a", "y">>,
                              <<"late">>, <<>>, id)
        at == MaxRows + 3 * (id - 1) + h.wait
    IN  CASE h.fate = "open" -> c
          [] h.fate = "progress" ->
                update_complaint_status(c, id, "In Progress", NULL, at)
          [] h.fate = "resolved" ->
                update_complaint_status(c, id, "Resolved", NULL, at)
          [] h.fate = "reopened" ->
                update_complaint_status(
                    update_complaint_status(c, id, "Resolved", NULL, at),
                    id, "Open", NULL, at + 1)

\* the stores of n complaints
RECURSIVE MetricsStores(_)
MetricsStores(n) ==
    IF n = 0 THEN { <<>> }
    ELSE { with_fate(cs, h) : cs \in MetricsStores(n - 1), h \in Fates }

InitMetrics ==
    /\ users = init_db({})
    /\ \E n \in 0 .. MaxRows : complaints \in MetricsStores(n)
    /\ session = NoUser
    /\ clock = 4 * MaxRows
    /\ everResolved = { i \in DOMAIN complaints : ~complaints[i].resolved_at.isNull }
    /\ secretOf = [ n \in Usernames(SeedUsers) |->
                      (CHOOSE s \in SeedUsers : s.username = n).password ]
    /\ registered = {}
    /\ last = Call("main", "none", 0, NULL, NULL, "returned")

\* chairman_page: rows = fetch_complaints(), then compute_resolution_metrics(rows)
ApiComputeResolutionMetrics ==
    /\ \E rows \in fetch_complaints(complaints, NULL, NULL, NULL, NULL, NULL) :
         last' = Call("api", "compute_resolution_metrics", 0, rows, NULL,
                      compute_resolution_metrics(rows))
    /\ UNCHANGED <<users, complaints, session, clock, everResolved, secretOf, registered>>

NextMetrics == ApiComputeResolutionMetrics

SpecMetrics == InitMetrics /\ [][NextMetrics]_vars

----------------------------------------------------------------------------
(* main: what a run of the script shows, by st.session_state["user"] *)

ShowsLogin == session = NoUser

ShowsPrincipalPage == session # NoUser /\ session.role = "principal"

\* variant: the page is chosen without looking at the role
ShowsOrgPageAnyRole == session # NoUser

ShowsOrgPage == session # NoUser /\ session.role = "org"

ShowsChairmanPage == session # NoUser /\ session.role = "chairman"

\* variant: if not details, without the strip
DetailsMissingUnstripped(details) == details = <<>>

\* if not details.strip(): the form is refused
DetailsMissing(details) == strip(details) = <<>>

\* response.strip() or None
StripOrNone(text) == IF strip(text) = <<>> THEN NULL ELSE Val(strip(text))

\* the uploaded photos as saved under UPLOAD_DIR
SavedPaths(photos, now) ==
    [ i \in DOMAIN photos |-> [dir |-> UPLOAD_DIR, at |-> now, name |-> photos[i]] ]

----------------------------------------------------------------------------
(* The handlers of the pages; every run of main calls init_db first *)

\* login, tab Sign In, button "Sign In"
SignIn ==
    /\ ShowsLogin
    /\ \E f \in SignInInputs :
         LET found == fetch_user(init_db(users), f.username, f.password)
         IN  IF f.username # <<>> /\ f.password # ""
             THEN IF found # {}
                  THEN LET user == CHOOSE u \in found : TRUE
                       IN  /\ session' = [present |-> TRUE, username |-> user.username,
                                          role |-> user.role]
                           /\ last' = Call("signin", "none", 0, f, NULL, "st.success")
                  ELSE /\ session' = session
                       /\ last' = Call("signin", "none", 0, f, NULL, "st.error")
             ELSE /\ session' = session
                  /\ last' = Call("signin", "none", 0, f, NULL, "st.warning")
    /\ users' = init_db(users)
    /\ UNCHANGED <<complaints, clock, everResolved, secretOf, registered>>

\* login, tab Sign Up, button "Create Account"
SignUp ==
    /\ ShowsLogin
    /\ \E f \in SignUpInputs :
         IF f.username # <<>> /\ f.password # ""
         THEN IF unique_violated(init_db(users), strip(f.username))
              THEN \* UNIQUE constraint failed: the exception is caught
                   /\ users' = init_db(users)
                   /\ secretOf' = secretOf
                   /\ registered' = registered
                   /\ last' = Call("signup", "none", 0, f, NULL, "st.error")
              ELSE /\ users' = init_db(users) \cup
                         { [username |-> strip(f.username),
                            password |-> sha256_hexdigest(f.password),
                            role |-> f.role] }
                   /\ secretOf' = (strip(f.username) :> f.password) @@ secretOf
                   /\ registered' = registered \cup {f}
                   /\ last' = Call("signup", "none", 0, f, NULL, "st.success")
         ELSE /\ users' = init_db(users)
              /\ secretOf' = secretOf
              /\ registered' = registered
              /\ last' = Call("signup", "none", 0, f, NULL, "st.warning")
    /\ UNCHANGED <<complaints, session, clock, everResolved>>

\* sidebar button "Logout"
Logout ==
    /\ session # NoUser
    /\ session' = NoUser
    /\ users' = init_db(users)
    /\ last' = Call("logout", "none", 0, NULL, NULL, "st.rerun")
    /\ UNCHANGED <<complaints, clock, everResolved, secretOf, registered>>

\* principal_page, button "Submit Complaint"
SubmitComplaint ==
    /\ ShowsPrincipalPage
    /\ \E f \in FormInputs :
         IF DetailsMissing(f.details)
         THEN /\ complaints' = complaints
              /\ clock' = clock
              /\ last' = Call("submit", "none", 0, f, NULL, "st.error")
         ELSE /\ Now <= MaxPageClock
              /\ Len(complaints) < MaxComplaints
              /\ complaints' = insert_complaint(complaints, f.bus_number, f.complaint_dt,
                                   f.problem_type, f.details, SavedPaths(f.photos, Now), Now)
              /\ clock' = Now
              /\ last' = Call("submit", "insert_complaint", Len(complaints) + 1,
                              [bus_number |-> f.bus_number,
                               complaint_dt |-> f.complaint_dt,
                               problem_type |-> f.problem_type,
                               details |-> f.details,
                               photo_paths |-> SavedPaths(f.photos, Now)],
                              NULL, "st.success")
    /\ users' = init_db(users)
    /\ UNCHANGED <<session, everResolved, secretOf, registered>>

\* org_page, button "Save Update"
SaveUpdate ==
    /\ ShowsOrgPage
    /\ Now <= MaxPageClock
    /\ \E selected_id \in Ids(complaints), new_status \in StatusOptions,
          response \in ResponseInputs :
         /\ complaints' = update_complaint_status(complaints, selected_id, new_status,
                                                  StripOrNone(response), Now)
         /\ everResolved' = IF new_status = "Resolved"
                            THEN everResolved \cup {selected_id} ELSE everResolved
         /\ last' = Call("save_update", "update_complaint_status", selected_id,
                         [status |-> new_status, response |-> StripOrNone(response)],
                         RowOf(complaints, selected_id), "st.success")
    /\ clock' = Now
    /\ users' = init_db(users)
    /\ UNCHANGED <<session, secretOf, registered>>

\* chairman_page, buttons "Great", "Followup", "Perfect"
React ==
    /\ ShowsChairmanPage
    /\ Now <= MaxPageClock
    /\ \E selected_id \in Ids(complaints), reaction \in Reactions :
         /\ complaints' = set_chairman_reaction(complaints, selected_id, reaction, Now)
         /\ last' = Call("react", "set_chairman_reaction", selected_id,
                         [reaction |-> reaction], RowOf(complaints, selected_id),
                         "st.success")
    /\ clock' = Now
    /\ users' = init_db(users)
    /\ UNCHANGED <<session, everResolved, secretOf, registered>>

Next ==
    \/ SignIn
    \/ SignUp
    \/ Logout
    \/ SubmitComplaint
    \/ SaveUpdate
    \/ React

Spec == Init /\ [][Next]_vars

----------------------------------------------------------------------------
(* The claims *)

\* the step just taken was `call` applied to the id of row i
Applied(call, i) == last'.call = call /\ last'.id = complaints[i].id

\* C1: a status update to Resolved sets resolved_at to the time of that call;
\* every other step (a status update to In Progress or Open, a reaction, a
\* call on another complaint) leaves resolved_at as it was.
C1_ResolvedAtFollowsResolve ==
    [][ \A i \in DOMAIN complaints :
          IF Applied("update_complaint_status", i) /\ last'.arg.status = "Resolved"
          THEN complaints'[i].resolved_at = Val(clock')
          ELSE complaints'[i].resolved_at = complaints[i].resolved_at ]_vars

\* a complaint resolved, then moved to In Progress, then reacted to, with the
\* resolution time still in place
C1_Witness ==
    \E i \in DOMAIN complaints :
        /\ complaints[i].status = "In Progress"
        /\ complaints[i].chairman_reaction # NULL
        /\ complaints[i].resolved_at # NULL
        /\ complaints[i].resolved_at.val < complaints[i].updated_at

\* C2: resolved_at is present exactly for the complaints a status update to
\* Resolved has been applied to since creation, whatever their status now.
C2_ResolvedAtIffEverResolved ==
    \A i \in DOMAIN complaints :
        (complaints[i].resolved_at # NULL) <=> (complaints[i].id \in everResolved)

\* one complaint resolved once and reopened, another never resolved
C2_Witness ==
    \E i, j \in DOMAIN complaints :
        /\ complaints[i].id \in everResolved
        /\ complaints[i].status = "Open"
        /\ complaints[i].resolved_at # NULL
        /\ complaints[i].resolved_at.val < complaints[i].updated_at
        /\ complaints[j].id \notin everResolved
        /\ complaints[j].resolved_at = NULL

\* C3: a status update to Resolved applied to a complaint that is Resolved
\* already leaves resolved_at unchanged.
C3_ResolveAgainKeepsResolvedAt ==
    [][ \A i \in DOMAIN complaints :
          ( /\ Applied("update_complaint_status", i)
            /\ last'.arg.status = "Resolved"
            /\ complaints[i].status = "Resolved" )
          => complaints'[i].resolved_at = complaints[i].resolved_at ]_vars

\* C4: create appends one record, with the draft's fields, status Open,
\* no response, no reaction, no resolved_at, and created_at = updated_at = the
\* time of the call; the records stored before are untouched.
C4_CreatePersistsOpenRecord ==
    [][ last'.call = "insert_complaint" =>
          /\ Len(complaints') = Len(complaints) + 1
          /\ \A i \in DOMAIN complaints : complaints'[i] = complaints[i]
          /\ LET new == complaints'[Len(complaints')]
             IN  /\ new.id = last'.id
                 /\ new.id \notin Ids(complaints)
                 /\ new.status = "Open"
                 /\ new.resolved_at = NULL
                 /\ new.org_response = NULL
                 /\ new.chairman_reaction = NULL
                 /\ new.created_at = clock'
                 /\ new.updated_at = clock'
                 /\ new.bus_number = last'.arg.bus_number
                 /\ new.complaint_datetime = last'.arg.complaint_dt
                 /\ new.problem_type = last'.arg.problem_type
                 /\ new.details = last'.arg.details
                 /\ new.photo_paths = last'.arg.photo_paths ]_vars

\* a second complaint just created while the first one is Resolved
C4_Witness ==
    /\ last.call = "insert_complaint"
    /\ Len(complaints) = 2
    /\ complaints[1].status = "Resolved"
    /\ complaints[2].status = "Open"
    /\ complaints[2].created_at = clock

\* C5: a status update or a reaction for an id no complaint has reports
\* NotFound to its caller and leaves the stored complaints as they were.
C5_MissingIdReportsNotFound ==
    [][ ( /\ last'.call \in {"update_complaint_status", "set_chairman_reaction"}
          /\ last'.id \notin Ids(complaints) )
        => ( /\ last'.result = "NotFound"
             /\ complaints' = complaints ) ]_vars

C7_NoTextKeepsResponse ==
    [][ \A i \in DOMAIN complaints :
          /\ Applied("update_complaint_status", i) =>
               IF last'.arg.response # NULL
               THEN complaints'[i].org_response = last'.arg.response
               ELSE complaints'[i].org_response = complaints[i].org_response
          /\ complaints[i].org_response # NULL => complaints'[i].org_response # NULL ]_vars

\* C7 as amended: a status update stores exactly the response it is given, the
\* text if there is one and NULL if there is none (clearing what was stored);
\* no other step changes the response.
C7_UpdateReplacesResponse ==
    [][ \A i \in DOMAIN complaints :
          IF Applied("update_complaint_status", i)
          THEN complaints'[i].org_response = last'.arg.response
          ELSE complaints'[i].org_response = complaints[i].org_response ]_vars

\* a status update with no text has just cleared a stored response
C7_Witness ==
    /\ last.call = "update_complaint_status"
    /\ last.old # NULL
    /\ last.old.val.org_response # NULL
    /\ last.arg.response = NULL
    /\ complaints[last.id].org_response = NULL

\* C8: a reaction on a stored complaint changes that complaint's
\* chairman_reaction and updated_at and nothing else, whatever its status; all
\* other complaints and the number of complaints are unchanged.
C8_ReactionChangesOnlyReaction ==
    [][ last'.call = "set_chairman_reaction" =>
          /\ Len(complaints') = Len(complaints)
          /\ \A i \in DOMAIN complaints :
               IF complaints[i].id = last'.id
               THEN complaints'[i] =
                      [ complaints[i] EXCEPT
                          !.chairman_reaction = Val(last'.arg.reaction),
                          !.updated_at = clock' ]
               ELSE complaints'[i] = complaints[i] ]_vars

\* a reaction just recorded on a Resolved complaint, another complaint stored
C8_Witness ==
    /\ last.call = "set_chairman_reaction"
    /\ last.old # NULL
    /\ last.old.val.status = "Resolved"
    /\ Len(complaints) = 2
    /\ complaints[last.id].status = "Resolved"
    /\ complaints[last.id].chairman_reaction = Val(last.arg.reaction)

\* C9: complaints are created only under a principal session, status,
\* response and resolved_at change only under an org session, the reaction
\* changes only under a chairman session, nothing changes with nobody logged
\* in, and no complaint is ever removed.
C9_RoleGatesMutations ==
    [][ /\ Len(complaints') >= Len(complaints)
        /\ \A i \in DOMAIN complaints : complaints'[i].id = complaints[i].id
        /\ complaints' # complaints => session # NoUser /\ session' = session
        /\ Len(complaints') > Len(complaints) => session.role = "principal"
        /\ ( \E i \in DOMAIN complaints :
               \/ complaints'[i].status # complaints[i].status
               \/ complaints'[i].org_response # complaints[i].org_response
               \/ complaints'[i].resolved_at # complaints[i].resolved_at )
           => session.role = "org"
        /\ ( \E i \in DOMAIN complaints :
               complaints'[i].chairman_reaction # complaints[i].chairman_reaction )
           => session.role = "chairman"
        /\ ( \E i \in DOMAIN complaints :
               complaints'[i].updated_at # complaints[i].updated_at )
           => session.role \in {"org", "chairman"} ]_vars

\* the chairman has just reacted to a complaint the principal created and the
\* operator answered
C9_Witness ==
    /\ last.handler = "react"
    /\ session # NoUser
    /\ session.role = "chairman"
    /\ \E i \in DOMAIN complaints :
         /\ complaints[i].org_response # NULL
         /\ complaints[i].chairman_reaction # NULL

\* C10: every stored credential, seeded or registered, is the digest of the
\* secret its identity was given, and not that secret itself.
C10_StoredCredentialIsDigest ==
    \A u \in users :
        /\ u.password = sha256_hexdigest(secretOf[u.username])
        /\ u.password # secretOf[u.username]

\* the passwords the forms are submitted with
PasswordsTried ==
    { f.password : f \in SignInInputs } \cup { f.password : f \in SignUpInputs }

\* C11 as written: once a Sign Up with (username, secret, role) has succeeded,
\* fetch_user(username, secret) returns the identity with exactly that username
\* and role, and fetch_user(username, s) returns nothing for every other s.
C11_AuthenticateReturnsGivenUsername ==
    \A g \in registered, p \in PasswordsTried :
        fetch_user(users, g.username, p) =
            IF p = g.password
            THEN { [username |-> g.username,
                    password |-> sha256_hexdigest(g.password),
                    role |-> g.role] }
            ELSE {}

\* C11 as amended: the identity returned carries the username as stored, which
\* is the one given with its leading and trailing blanks removed, and exactly
\* the role given; every other secret returns nothing. Sign In with such a
\* username puts that identity in the session on the right secret and leaves
\* the session empty on any other.
C11_AuthenticateReturnsStoredIdentity ==
    /\ [] ( \A g \in registered, p \in PasswordsTried :
              fetch_user(users, g.username, p) =
                  IF p = g.password
                  THEN { [username |-> strip(g.username),
                          password |-> sha256_hexdigest(g.password),
                          role |-> g.role] }
                  ELSE {} )
    /\ [][ \A g \in registered :
             ( /\ last'.handler = "signin"
               /\ last'.arg.username # <<>>
               /\ strip(last'.arg.username) = strip(g.username) )
             => IF last'.arg.password = g.password
                THEN /\ last'.result = "st.success"
                     /\ session' = [present |-> TRUE,
                                    username |-> strip(g.username),
                                    role |-> g.role]
                ELSE /\ last'.result \in {"st.error", "st.warning"}
                     /\ session' = NoUser ]_vars

\* signed in under a username that was registered with a leading blank and
\* typed with a trailing one
C11_Witness ==
    /\ last.handler = "signin"
    /\ last.result = "st.success"
    /\ last.arg.username = <<"ann", " ">>
    /\ session # NoUser
    /\ session.username = <<"ann">>
    /\ session.role = "chairman"
    /\ \E g \in registered : g.username = <<" ", "ann">> /\ g.role = "chairman"

\* C12: a Sign Up under a username that is stored already, seeded or
\* registered before, is answered with the "Username exists" error and leaves
\* the users (role and digest of the existing one included), the complaints and
\* the session as they were; no two stored users ever share a username.
C12_DuplicateUsernameRefused ==
    /\ [] ( \A u, v \in users : u.username = v.username => u = v )
    /\ [][ ( /\ last'.handler = "signup"
             /\ last'.arg.username # <<>>
             /\ last'.arg.password # ""
             /\ \E u \in users : u.username = strip(last'.arg.username) )
           => /\ last'.result = "st.error"
              /\ users' = users
              /\ complaints' = complaints
              /\ session' = session ]_vars

\* a second Sign Up under a registered username, with another secret and role,
\* was refused, and so was one under a seeded username
C12_Witness ==
    /\ last.handler = "signup"
    /\ last.result = "st.error"
    /\ last.arg.username = <<"org">>
    /\ \E g \in registered :
         /\ g.username = <<"ann">>
         /\ [username |-> <<"ann">>, password |-> sha256_hexdigest(g.password),
             role |-> g.role] \in users
         /\ \A u \in users : u.username = <<"ann">> => u.role = g.role
    /\ [username |-> <<"org">>, password |-> "org123", role |-> "org"] \in users

\* text contains part, character for character
Contains(text, part) ==
    \E i \in 0 .. (Len(text) - Len(part)) : SubSeq(text, i + 1, i + Len(part)) = part

\* a complaint satisfies every field of the filter that is present
Satisfies(r, f) ==
    /\ ~f.bus.isNull => r.bus_number = f.bus.val
    /\ ~f.problem.isNull => Contains(r.problem_type, f.problem.val)
    /\ (~f.status.isNull /\ f.status.val # "All") => r.status = f.status.val
    /\ ~f.start_date.isNull => r.complaint_datetime[1] >= f.start_date.val
    /\ ~f.end_date.isNull => r.complaint_datetime[1] <= f.end_date.val

\* C13: fetch_complaints returns exactly the stored complaints that satisfy all
\* the filter fields that are present: bus number equal, the problem text a
\* case-sensitive substring of the problem type, status equal unless "All",
\* the date of the incident within the inclusive bounds.
C13_ListReturnsExactlyTheMatches ==
    last.call = "fetch_complaints"
    => { last.result[j] : j \in DOMAIN last.result }
         = { complaints[i] : i \in { k \in DOMAIN complaints :
                                       Satisfies(complaints[k], last.arg) } }

\* C14: the rows come newest incident first, and rows of the same incident
\* date and time come in descending id order.
C14_ListOrderedWithTiesByIdDescending ==
    last.call = "fetch_complaints"
    => \A j, k \in DOMAIN last.result :
         j < k =>
           \/ isoformat_lt(last.result[k].complaint_datetime,
                           last.result[j].complaint_datetime)
           \/ /\ last.result[k].complaint_datetime = last.result[j].complaint_datetime
              /\ last.result[j].id > last.result[k].id

\* the seconds from created_at to resolved_at, summed over the rows numbered in R
RECURSIVE TotalSeconds(_, _)
TotalSeconds(rows, R) ==
    IF R = {} THEN 0
    ELSE LET i == CHOOSE k \in R : TRUE
         IN  rows[i].resolved_at.val - rows[i].created_at
               + TotalSeconds(rows, R \ {i})

\* C15: avg_hours is None exactly when no row has a resolved_at (never a
\* number, zero included, in that case); otherwise it is the mean of
\* resolved_at - created_at, in hours, over all the rows that have a
\* resolved_at, whatever their status.
C15_AverageOverRowsWithResolvedAt ==
    last.call = "compute_resolution_metrics"
    => LET rows == last.arg
           R == { i \in DOMAIN rows : ~rows[i].resolved_at.isNull }
           avg == last.result.avg_hours
       IN  IF R = {}
           THEN avg = NULL
           ELSE /\ ~avg.isNull
                /\ avg.val.den > 0
                /\ avg.val.num * Cardinality(R) * SECONDS_PER_HOUR
                     = TotalSeconds(rows, R) * avg.val.den

\* the average was taken over a complaint that was resolved and reopened and
\* one that is still resolved, which took different times, next to one that was
\* never resolved
C15_Witness ==
    /\ last.call = "compute_resolution_metrics"
    /\ ~last.result.avg_hours.isNull
    /\ \E i, j, k \in DOMAIN last.arg :
         /\ ~last.arg[i].resolved_at.isNull /\ last.arg[i].status = "Open"
         /\ ~last.arg[j].resolved_at.isNull /\ last.arg[j].status = "Resolved"
         /\ last.arg[i].resolved_at.val - last.arg[i].created_at
              # last.arg[j].resolved_at.val - last.arg[j].created_at
         /\ last.arg[k].resolved_at.isNull

\* C16: no complaint is ever updated before it was created; created_at never
\* changes; an update_complaint_status or set_chairman_reaction that finds the
\* complaint sets its updated_at to the time of that call, which is not before
\* the updated_at it had.
C16_UpdatedAtFollowsCalls ==
    /\ [] ( \A i \in DOMAIN complaints :
              complaints[i].updated_at >= complaints[i].created_at )
    /\ [][ \A i \in DOMAIN complaints :
             /\ complaints'[i].created_at = complaints[i].created_at
             /\ ( \/ Applied("update_complaint_status", i)
                  \/ Applied("set_chairman_reaction", i) )
                => /\ complaints'[i].updated_at = clock'
                   /\ clock' > clock
                   /\ complaints'[i].updated_at >= complaints[i].updated_at ]_vars

\* a reaction was recorded on a complaint whose status had been updated before,
\* and moved its updated_at on to the time of the reaction
C16_Witness ==
    /\ last.call = "set_chairman_reaction"
    /\ ~last.old.isNull
    /\ last.old.val.updated_at > last.old.val.created_at
    /\ \E i \in DOMAIN complaints :
         /\ complaints[i].id = last.id
         /\ complaints[i].updated_at = clock
         /\ complaints[i].updated_at > last.old.val.updated_at
         /\ complaints[i].created_at = last.old.val.created_at

====
